---- MODULE Spec2Model ----
(***************************************************************************)
(* Model of the depression-assessment inference service (MLService in      *)
(* ml_services.py): model loading at construction, PHQ-9 scoring, journal  *)
(* text analysis with its model path and rule-based fallback, and the two  *)
(* recommendation tables.                                                  *)
(*                                                                         *)
(* Sentiment scores and confidences are held in tenths (0.4 is 4), so the  *)
(* thresholds of the source (-0.5, -0.2, 0.1, 0.2, 0.3, 0.4, 0.7) are      *)
(* integers.  Text is a sequence of characters over " " and "a".  A Python *)
(* dict is a function whose DOMAIN is the set of its keys; the value None  *)
(* of an artifact field is FALSE, a loaded artifact is TRUE.               *)
(***************************************************************************)
EXTENDS Integers, Sequences, FiniteSets, TLC

VARIABLES env, self, call, db

vars == <<env, self, call, db>>

(***************************************************************************)
(* Bounds of the explored inputs.                                          *)
(***************************************************************************)
\* longest PHQ-9 response list tried (9 is the valid length)
MaxLen == 10
\* largest single answer tried (3 is the largest valid answer)
MaxVal == 4
\* longest run of non-space characters in a journal text
MaxCore == 11
\* most spaces put before, and after, the non-space run
MaxPad == 1
\* largest negative-sentiment score, in tenths
MaxNeg == 5
\* largest positive-sentiment score, in tenths
MaxPos == 1
\* most negative compound score is -MaxCompound, in tenths
MaxCompound == 6
\* largest class code the classifier returns (0..3 are mapped)
MaxClass == 4
\* longest run of non-space characters in a submitted journal text
MaxJournal == 20
\* most records the store is explored with
MaxRecords == 1

(***************************************************************************)
(* Python helpers.                                                         *)
(***************************************************************************)
RECURSIVE sum(_)
\* the builtin sum() over a list of ints
sum(s) == IF s = <<>> THEN 0 ELSE Head(s) + sum(Tail(s))

RECURSIVE lstrip(_)
lstrip(s) == IF s # <<>> /\ Head(s) = " " THEN lstrip(Tail(s)) ELSE s

RECURSIVE rstrip(_)
rstrip(s) ==
  IF s # <<>> /\ s[Len(s)] = " " THEN rstrip(SubSeq(s, 1, Len(s) - 1)) ELSE s

\* str.strip(): leading and trailing whitespace removed
strip(s) == rstrip(lstrip(s))

\* len(text.split()): the number of maximal runs of non-space characters
word_count(s) ==
  Cardinality({i \in 1..Len(s) : s[i] # " " /\ (i = 1 \/ s[i - 1] = " ")})

\* dict.update(): the keys of u are added to, or overwrite, those of r
update(r, u) ==
  [k \in DOMAIN r \cup DOMAIN u |-> IF k \in DOMAIN u THEN u[k] ELSE r[k]]

(***************************************************************************)
(* PHQ-9 scoring.                                                          *)
(***************************************************************************)
\* the urgent advisory (its leading warning sign is left out of the string)
UrgentAdvisory == "Consider immediate professional support"

Phq9Minimal ==
  << "Continue maintaining good mental health habits",
     "Practice regular self-care activities",
     "Stay connected with supportive people",
     "Consider journaling to track your mood" >>

Phq9Mild ==
  << "Consider talking to a counselor or therapist",
     "Engage in regular physical activity",
     "Practice stress management techniques",
     "Maintain a regular sleep schedule",
     "Connect with friends and family" >>

Phq9Moderate ==
  << "Strongly consider professional counseling",
     "Discuss your symptoms with a healthcare provider",
     "Consider mindfulness or meditation practices",
     "Maintain social connections",
     "Avoid alcohol and substance use" >>

Phq9Severe ==
  << "Seek immediate professional help",
     "Contact your healthcare provider",
     "Consider medication evaluation",
     "Inform trusted friends or family about your situation",
     "Remove access to means of self-harm" >>

\* a plausible slip: the urgent advisory only above 15
phq9_recommendations_strict(severity, score) ==
  LET recommendations ==
        IF severity = "Minimal" THEN Phq9Minimal
        ELSE IF severity = "Mild" THEN Phq9Mild
        ELSE IF severity = "Moderate" THEN Phq9Moderate
        ELSE Phq9Severe
  IN  IF score > 15 THEN <<UrgentAdvisory>> \o recommendations
      ELSE recommendations

_get_phq9_recommendations(severity, score) ==
  LET recommendations ==
        IF severity = "Minimal" THEN Phq9Minimal
        ELSE IF severity = "Mild" THEN Phq9Mild
        ELSE IF severity = "Moderate" THEN Phq9Moderate
        ELSE Phq9Severe
  IN  IF score >= 15 THEN <<UrgentAdvisory>> \o recommendations
      ELSE recommendations

\* a plausible slip: the Mild band starts one point early
phq9_severity_early(total_score) ==
  IF total_score < 4 THEN "Minimal"
  ELSE IF total_score <= 9 THEN "Mild"
  ELSE IF total_score <= 14 THEN "Moderate"
  ELSE IF total_score <= 19 THEN "Moderately Severe"
  ELSE "Severe"

\* the severity band of a total score
phq9_severity(total_score) ==
  IF total_score <= 4 THEN "Minimal"
  ELSE IF total_score <= 9 THEN "Mild"
  ELSE IF total_score <= 14 THEN "Moderate"
  ELSE IF total_score <= 19 THEN "Moderately Severe"
  ELSE "Severe"

phq9_description(severity) ==
  CASE severity = "Minimal" -> "Minimal or no depression"
    [] severity = "Mild" -> "Mild depression"
    [] severity = "Moderate" -> "Moderate depression"
    [] severity = "Moderately Severe" -> "Moderately severe depression"
    [] OTHER -> "Severe depression"

\* the outcome of one call: a returned dict or a raised exception
analyze_phq9(responses) ==
  IF Len(responses) # 9
  THEN [outcome |-> "raise",
        result |-> [exception |-> "ValueError"],
        invoked |-> {}]
  ELSE LET total_score == sum(responses)
           severity == phq9_severity(total_score)
       IN  [outcome |-> "return",
            result |->
              [total_score |-> total_score,
               max_score |-> 27,
               severity |-> severity,
               description |-> phq9_description(severity),
               recommendations |->
                 _get_phq9_recommendations(severity, total_score),
               analysis_type |-> "PHQ-9"],
            invoked |-> {}]

(***************************************************************************)
(* Journal recommendations and the rule-based estimator.                   *)
(***************************************************************************)
JournalMinimal ==
  << "Continue expressing your thoughts through writing",
     "Practice gratitude journaling",
     "Celebrate small victories",
     "Maintain healthy routines" >>

JournalMild ==
  << "Continue regular journaling",
     "Focus on positive coping strategies",
     "Consider talking to someone you trust",
     "Practice self-compassion" >>

JournalModerate ==
  << "Consider professional support",
     "Use journaling to identify patterns",
     "Practice mindfulness techniques",
     "Maintain social connections" >>

JournalSevere ==
  << "Seek professional help immediately",
     "Share your concerns with trusted people",
     "Use journaling as a tool with professional guidance",
     "Focus on safety and self-care" >>

ChallengeAdvisory == "Consider challenging negative thought patterns"

PleasantAdvisory == "Try to identify and engage in pleasant activities"

\* a plausible slip: the Severe list tied to its label, nothing for the rest
journal_base_no_catch_all(severity) ==
  IF severity = "Minimal" THEN JournalMinimal
  ELSE IF severity = "Mild" THEN JournalMild
  ELSE IF severity = "Moderate" THEN JournalModerate
  ELSE IF severity = "Severe" THEN JournalSevere
  ELSE <<>>

\* the base list of a journal severity label; any other label gets the last
journal_base(severity) ==
  IF severity = "Minimal" THEN JournalMinimal
  ELSE IF severity = "Mild" THEN JournalMild
  ELSE IF severity = "Moderate" THEN JournalModerate
  ELSE JournalSevere

\* a plausible slip: the second addendum written as an elif of the first
journal_recommendations_elif(severity, vader_scores) ==
  journal_base(severity)
    \o (IF vader_scores["negative"] > 3 THEN <<ChallengeAdvisory>>
        ELSE IF vader_scores["positive"] < 1 THEN <<PleasantAdvisory>>
        ELSE <<>>)

_get_journal_recommendations(severity, vader_scores) ==
  journal_base(severity)
    \o (IF vader_scores["negative"] > 3 THEN <<ChallengeAdvisory>> ELSE <<>>)
    \o (IF vader_scores["positive"] < 1 THEN <<PleasantAdvisory>> ELSE <<>>)

\* a plausible slip: a Severe band given to the rule-based estimator
fallback_severity_with_severe(compound, negative) ==
  IF compound <= -6 THEN "Severe"
  ELSE IF compound <= -5 \/ negative >= 4 THEN "Moderate"
  ELSE IF compound <= -2 \/ negative >= 2 THEN "Mild"
  ELSE "Minimal"

\* a plausible slip: the Moderate compound threshold made strict
fallback_severity_strict(compound, negative) ==
  IF compound < -5 \/ negative >= 4 THEN "Moderate"
  ELSE IF compound <= -2 \/ negative >= 2 THEN "Mild"
  ELSE "Minimal"

\* the thresholded decision of the rule-based estimator
fallback_severity(compound, negative) ==
  IF compound <= -5 \/ negative >= 4 THEN "Moderate"
  ELSE IF compound <= -2 \/ negative >= 2 THEN "Mild"
  ELSE "Minimal"

\* a plausible slip: the fallback tagged like a model result
fallback_analysis_untagged(vader_scores) ==
  LET severity ==
        fallback_severity(vader_scores["compound"], vader_scores["negative"])
  IN  [predicted_severity |-> severity,
       confidence |-> 7,
       recommendations |-> _get_journal_recommendations(severity, vader_scores)]

_fallback_analysis(vader_scores) ==
  LET severity ==
        fallback_severity(vader_scores["compound"], vader_scores["negative"])
  IN  [predicted_severity |-> severity,
       confidence |-> 7,
       method |-> "rule_based",
       recommendations |-> _get_journal_recommendations(severity, vader_scores)]

(***************************************************************************)
(* Construction and model loading.                                         *)
(*                                                                         *)
(* env is what the process finds at start-up: whether the ML libraries     *)
(* imported (one try block: any ImportError sets every name to None),      *)
(* which artifacts exist under models/, and which load call, if any,       *)
(* raises.                                                                 *)
(***************************************************************************)
\* the load calls of the try block, in order (bert_model.eval() raising
\* leaves the same fields as the sentiment analyzer raising after it)
LoadSteps == {"tokenizer", "bert_model", "vader", "scaler", "classifier"}

\* whether _load_models reaches the load call of a step when nothing raises
attempted(e, step) ==
  CASE step \in {"tokenizer", "bert_model"} -> e.deps /\ e.bert_dir
    [] step = "vader" -> e.deps
    [] step = "scaler" -> e.deps /\ e.scaler_file
    [] step = "classifier" -> e.deps /\ e.classifier_file
    [] OTHER -> FALSE

Environments ==
  {e \in [deps : BOOLEAN, bert_dir : BOOLEAN, scaler_file : BOOLEAN,
          classifier_file : BOOLEAN, load_raises : LoadSteps \cup {"none"}] :
     e.load_raises = "none" \/ attempted(e, e.load_raises)}

\* the fields MLService.__init__ sets before it calls _load_models
InitialFields ==
  [bert_model |-> FALSE, bert_tokenizer |-> FALSE, vader_analyzer |-> FALSE,
   scaler |-> FALSE, classifier |-> FALSE, model_loaded |-> FALSE]

\* a plausible slip: any() written for all()
all_loaded_any(s) ==
  s.bert_model \/ s.vader_analyzer \/ s.scaler \/ s.classifier

\* a plausible slip: the classifier left out of the completeness test
all_loaded_but_classifier(s) ==
  s.bert_model /\ s.vader_analyzer /\ s.scaler

\* the all([...]) that decides model_loaded
all_loaded(s) ==
  s.bert_model /\ s.vader_analyzer /\ s.scaler /\ s.classifier

\* one load call inside the try block: skipped once something has raised or
\* when its condition is false, else it raises or sets its field
load_step(e, st, step, field) ==
  IF st.raised \/ ~attempted(e, step) THEN st
  ELSE IF e.load_raises = step THEN [st EXCEPT !.raised = TRUE]
  ELSE [st EXCEPT !.fields[field] = TRUE]

\* the fields of the service when _load_models returns
_load_models(e, fields) ==
  LET s0 == [fields |-> fields, raised |-> FALSE]
      s1 == load_step(e, s0, "tokenizer", "bert_tokenizer")
      s2 == load_step(e, s1, "bert_model", "bert_model")
      s3 == load_step(e, s2, "vader", "vader_analyzer")
      s4 == load_step(e, s3, "scaler", "scaler")
      s5 == load_step(e, s4, "classifier", "classifier")
  IN  IF s5.raised
      THEN [s5.fields EXCEPT !.model_loaded = FALSE]
      ELSE [s5.fields EXCEPT !.model_loaded = all_loaded(s5.fields)]

(***************************************************************************)
(* Feature extraction.  rt is what the libraries do during one call: the   *)
(* scores the sentiment analyzer returns, whether it raises, the step of   *)
(* the model path that raises (if any), and the classifier's answer.       *)
(* preprocess_text only prepares the argument of those library calls, so   *)
(* its effect is part of what rt stands for.                               *)
(***************************************************************************)
ZeroScores == [positive |-> 0, negative |-> 0, neutral |-> 0, compound |-> 0]

get_vader_scores(svc, rt) ==
  IF ~svc.vader_analyzer THEN [value |-> ZeroScores, invoked |-> {}]
  ELSE [value |-> IF rt.vader_raises THEN ZeroScores ELSE rt.scores,
        invoked |-> {"polarity_scores"}]

\* the embedding vector the encoder produces (opaque)
Embedding == <<1, 2>>

\* a plausible slip: the extraction failure is not caught
get_bert_embedding_uncaught(svc, rt) ==
  IF ~svc.bert_model \/ ~svc.bert_tokenizer
  THEN [is_none |-> TRUE, raised |-> FALSE, invoked |-> {}]
  ELSE IF rt.ml_fault = "embedding"
  THEN [is_none |-> TRUE, raised |-> TRUE, invoked |-> {"bert_model"}]
  ELSE [is_none |-> FALSE, raised |-> FALSE, invoked |-> {"bert_model"}]

\* is_none: the method returns None instead of the embedding; raised: an
\* exception leaves the method (it never does: the method catches it, logs
\* and returns None)
get_bert_embedding(svc, rt) ==
  IF ~svc.bert_model \/ ~svc.bert_tokenizer
  THEN [is_none |-> TRUE, raised |-> FALSE, invoked |-> {}]
  ELSE IF rt.ml_fault = "embedding"
  THEN [is_none |-> TRUE, raised |-> FALSE, invoked |-> {"bert_model"}]
  ELSE [is_none |-> FALSE, raised |-> FALSE, invoked |-> {"bert_model"}]

(***************************************************************************)
(* Journal analysis.                                                       *)
(***************************************************************************)
\* a plausible slip: the class codes taken to start at 1
severity_map_from_one(prediction) ==
  CASE prediction = 1 -> "Minimal"
    [] prediction = 2 -> "Mild"
    [] prediction = 3 -> "Moderate"
    [] prediction = 4 -> "Severe"
    [] OTHER -> "Unknown"

\* severity_map.get(prediction, "Unknown")
severity_map(prediction) ==
  CASE prediction = 0 -> "Minimal"
    [] prediction = 1 -> "Mild"
    [] prediction = 2 -> "Moderate"
    [] prediction = 3 -> "Severe"
    [] OTHER -> "Unknown"

\* the except clause of the model path: the dict update it leaves behind
ml_error(message, invoked) ==
  [update |-> [ml_error |-> message], invoked |-> invoked]

\* the try block of analyze_journal_text: the keys it adds to results and
\* the library calls it makes.  A call on an artifact that is None raises
\* AttributeError, which the except clause catches like any other.
ml_analysis(svc, vader_scores, rt) ==
  LET emb == get_bert_embedding(svc, rt)
      i1 == emb.invoked
      i2 == i1 \cup {"scaler.transform"}
      i3 == i2 \cup {"classifier.predict"}
      i4 == i3 \cup {"classifier.predict_proba"}
      predicted_severity == severity_map(rt.prediction)
  IN  IF emb.raised THEN ml_error("embedding", i1)
      ELSE IF emb.is_none THEN [update |-> <<>>, invoked |-> i1]
      ELSE IF rt.ml_fault = "fusion" THEN ml_error("fusion", i1)
      ELSE IF ~svc.scaler THEN ml_error("AttributeError", i1)
      ELSE IF rt.ml_fault = "scaler" THEN ml_error("scaler", i2)
      ELSE IF ~svc.classifier THEN ml_error("AttributeError", i2)
      ELSE IF rt.ml_fault = "predict" THEN ml_error("predict", i3)
      ELSE IF rt.ml_fault = "predict_proba" THEN ml_error("predict_proba", i4)
      ELSE [update |->
              [ml_prediction |-> rt.prediction,
               predicted_severity |-> predicted_severity,
               confidence |-> rt.confidence,
               bert_embedding |-> Embedding,
               recommendations |->
                 _get_journal_recommendations(predicted_severity,
                                              vader_scores)],
            invoked |-> i4]

\* a plausible slip: the minimum length off by one
text_too_short_9(text) == text = <<>> \/ Len(strip(text)) < 9

\* not text or len(text.strip()) < 10
text_too_short(text) == text = <<>> \/ Len(strip(text)) < 10

\* a plausible slip: no fallback once the model path has reported an error
needs_fallback_unless_error(results) ==
  "predicted_severity" \notin DOMAIN results
    /\ "ml_error" \notin DOMAIN results

\* "predicted_severity" not in results
needs_fallback(results) == "predicted_severity" \notin DOMAIN results

analyze_journal_text(svc, text, rt) ==
  IF text_too_short(text)
  THEN [outcome |-> "return",
        result |-> [error |-> "Text too short for analysis",
                    analysis_type |-> "Journal"],
        invoked |-> {}]
  ELSE LET vader == get_vader_scores(svc, rt)
           vader_scores == vader.value
           results0 == [text_length |-> Len(text),
                        word_count |-> word_count(text),
                        vader_scores |-> vader_scores,
                        analysis_type |-> "Journal"]
           ml == IF svc.model_loaded
                 THEN ml_analysis(svc, vader_scores, rt)
                 ELSE [update |-> <<>>, invoked |-> {}]
           results1 == update(results0, ml.update)
           results2 == IF needs_fallback(results1)
                       THEN update(results1, _fallback_analysis(vader_scores))
                       ELSE results1
       IN  [outcome |-> "return",
            result |-> results2,
            invoked |-> vader.invoked \cup ml.invoked]

(***************************************************************************)
(* Inputs.                                                                 *)
(***************************************************************************)
\* response lists: k answers a followed by answers b, of length 0 or 8..MaxLen
Responses ==
  {[i \in 1..n |-> IF i <= k THEN a ELSE b] :
     n \in {0} \cup (8..MaxLen), k \in 0..MaxLen,
     a \in (-1)..MaxVal, b \in (-1)..MaxVal}

Spaces(n) == [i \in 1..n |-> " "]

\* journal texts: a run of letters with spaces before and after it
Texts ==
  {Spaces(l) \o [i \in 1..c |-> "a"] \o Spaces(t) :
     l \in 0..MaxPad, c \in 0..MaxCore, t \in 0..MaxPad}

\* the scores the sentiment analyzer can return, in tenths
Scores ==
  {[positive |-> p, negative |-> n, neutral |-> 10 - p - n, compound |-> c] :
     p \in 0..MaxPos, n \in 0..MaxNeg, c \in (-MaxCompound)..1}

\* the maximum class probabilities the classifier can report, in tenths
Confidences == {3, 7, 10}

MlFaults == {"embedding", "fusion", "scaler", "predict", "predict_proba"}

\* what the libraries can do during one call of analyze_journal_text; the
\* parts of it that no library call of this call consumes are held fixed
Runtimes(svc, text) ==
  LET sentiment ==
        IF text_too_short(text) \/ ~svc.vader_analyzer
        THEN {[scores |-> ZeroScores, vader_raises |-> FALSE]}
        ELSE {[scores |-> sc, vader_raises |-> FALSE] : sc \in Scores}
               \cup {[scores |-> ZeroScores, vader_raises |-> TRUE]}
      model ==
        IF text_too_short(text) \/ ~svc.model_loaded
        THEN {[ml_fault |-> "none", prediction |-> 0, confidence |-> 7]}
        ELSE {[ml_fault |-> f, prediction |-> 0, confidence |-> 7] :
                f \in MlFaults}
               \cup {[ml_fault |-> "none", prediction |-> p,
                      confidence |-> c] :
                       p \in 0..MaxClass, c \in Confidences}
  IN  {[scores |-> s.scores, vader_raises |-> s.vader_raises,
        ml_fault |-> m.ml_fault, prediction |-> m.prediction,
        confidence |-> m.confidence] : s \in sentiment, m \in model}

(***************************************************************************)
(* The state machine.  self is the module-level ml_service: it does not    *)
(* exist until MLService() has returned, and the two entry points are      *)
(* methods of it.  call is the call a request handler has just made and    *)
(* what came of it, until the handler has answered its request.  db is    *)
(* the set of rows the persistence layer holds (ids, users and timestamps  *)
(* left out).                                                              *)
(***************************************************************************)
\* a plausible slip: the model path switched off after a failure in it
fields_after_call_disabling(svc, r) ==
  IF r.outcome = "return" /\ "ml_error" \in DOMAIN r.result
  THEN [svc EXCEPT !.model_loaded = FALSE]
  ELSE svc

\* the fields of the service when an entry point has finished with outcome
\* r: neither entry point, nor a method it calls, assigns to a field of self
fields_after_call(svc, r) == svc

\* a plausible slip: the instance handed out before its constructor has run
\* (a lazily filled global)
service_available_early(s) == TRUE

\* a caller can reach the service only through the module-level name
\* ml_service, which is bound when MLService() has returned
service_available(s) == s.constructed

Init ==
  /\ env \in Environments
  /\ self = [constructed |-> FALSE, fields |-> InitialFields]
  /\ call = [op |-> "none"]
  /\ db = {}

\* ml_service = MLService(): __init__ runs _load_models before it returns
MLService ==
  /\ ~self.constructed
  /\ self' = [constructed |-> TRUE,
              fields |-> _load_models(env, InitialFields)]
  /\ UNCHANGED <<env, call, db>>

AnalyzePhq9 ==
  /\ service_available(self)
  /\ call.op = "none"
  /\ \E responses \in Responses :
       LET r == analyze_phq9(responses)
       IN  /\ call' = [op |-> "analyze_phq9", responses |-> responses,
                       outcome |-> r.outcome, result |-> r.result,
                       invoked |-> r.invoked]
           /\ self' = [self EXCEPT
                         !.fields = fields_after_call(self.fields, r)]
  /\ UNCHANGED <<env, db>>

AnalyzeJournalText ==
  /\ service_available(self)
  /\ call.op = "none"
  /\ \E text \in Texts :
       \E rt \in Runtimes(self.fields, text) :
         LET r == analyze_journal_text(self.fields, text, rt)
         IN  /\ call' = [op |-> "analyze_journal_text", text |-> text,
                         rt |-> rt, outcome |-> r.outcome,
                         result |-> r.result, invoked |-> r.invoked]
             /\ self' = [self EXCEPT
                           !.fields = fields_after_call(self.fields, r)]
  /\ UNCHANGED <<env, db>>

\* the handler that made the call answers its request (a rendered page or a
\* redirect) and is done; the service is free for the next request
Respond ==
  /\ call.op # "none"
  /\ call' = [op |-> "none"]
  /\ UNCHANGED <<env, self, db>>

Next == MLService \/ AnalyzePhq9 \/ AnalyzeJournalText \/ Respond

Spec == Init /\ [][Next]_vars

(***************************************************************************)
(* The request handlers of routes.py that submit to the service and store  *)
(* what it returns.  A form field that was not sent is None.               *)
(***************************************************************************)
None == "None"

\* the decimal strings of 0..9, by value
IntStrings == <<"0", "1", "2", "3", "4", "5", "6", "7", "8", "9">>

\* int(response): the value of a decimal string, or ValueError
int(response) ==
  IF \E n \in 1..10 : IntStrings[n] = response
  THEN [raised |-> FALSE,
        value |-> (CHOOSE n \in 1..10 : IntStrings[n] = response) - 1]
  ELSE IF response = "-1" THEN [raised |-> FALSE, value |-> -1]
  ELSE [raised |-> TRUE, value |-> 0]

\* dict.get(key, default)
get(d, key, default) == IF key \in DOMAIN d THEN d[key] ELSE default

\* what a handler leaves behind: the message it flashes, whether its except
\* clause ran, how the analysis call ended, the rows it committed and the
\* fields of the service
handled(flash, raised, analysis, add, fields) ==
  [flash |-> flash, raised |-> raised, analysis |-> analysis, add |-> add,
   fields |-> fields]

\* POST /phq9 with the fields q0..q8 of form (here form[1]..form[9])
phq9_assessment(svc, form, commit_ok) ==
  LET bad == {i \in 1..9 : form[i] = None \/ int(form[i]).raised}
      first == CHOOSE i \in bad : \A j \in bad : i <= j
      responses == [i \in 1..9 |-> int(form[i]).value]
      r == analyze_phq9(responses)
      analysis_result == r.result
      assessment ==
        [kind |-> "PHQ9Assessment",
         q1_interest |-> responses[1],
         q2_depression |-> responses[2],
         q3_sleep |-> responses[3],
         q4_energy |-> responses[4],
         q5_appetite |-> responses[5],
         q6_selfworth |-> responses[6],
         q7_concentration |-> responses[7],
         q8_psychomotor |-> responses[8],
         q9_suicidal |-> responses[9],
         total_score |-> analysis_result.total_score,
         severity_level |-> analysis_result.severity]
      error == "Error processing assessment. Please try again."
  IN  IF bad # {} /\ form[first] = None
      THEN handled("Please answer all questions", FALSE, "not called", {},
                   svc)
      ELSE IF bad # {}
      THEN handled(error, TRUE, "not called", {}, svc)
      ELSE IF r.outcome = "raise"
      THEN handled(error, TRUE, "raise", {}, fields_after_call(svc, r))
      ELSE IF ~commit_ok
      THEN handled(error, TRUE, "return", {}, fields_after_call(svc, r))
      ELSE handled("Assessment completed", FALSE, "return", {assessment},
                   fields_after_call(svc, r))

\* a plausible slip: the submitted text measured as sent
journal_text_unstripped(raw) == raw

\* request.form.get('journal_text', '').strip()
journal_text_of(raw) == strip(raw)

\* POST /journal with the field journal_text of the form
journal_analysis(svc, raw, rt, commit_ok) ==
  LET journal_text == journal_text_of(raw)
      r == analyze_journal_text(svc, journal_text, rt)
      analysis_result == r.result
      entry ==
        [kind |-> "JournalEntry",
         content |-> journal_text,
         word_count |-> analysis_result.word_count,
         vader_positive |-> analysis_result.vader_scores.positive,
         vader_negative |-> analysis_result.vader_scores.negative,
         vader_neutral |-> analysis_result.vader_scores.neutral,
         vader_compound |-> analysis_result.vader_scores.compound,
         severity_prediction |->
           get(analysis_result, "predicted_severity", "Unknown"),
         confidence_score |-> get(analysis_result, "confidence", 0),
         bert_embedding |-> get(analysis_result, "bert_embedding", <<>>)]
      error == "Error analyzing journal entry. Please try again."
  IN  IF Len(journal_text) < 20
      THEN handled("Please write at least 20 characters for analysis",
                   FALSE, "not called", {}, svc)
      ELSE IF r.outcome = "raise"
      THEN handled(error, TRUE, "raise", {}, fields_after_call(svc, r))
      ELSE IF "error" \in DOMAIN analysis_result
      THEN handled(analysis_result.error, FALSE, "error", {},
                   fields_after_call(svc, r))
      ELSE IF ~commit_ok
      THEN handled(error, TRUE, "return", {}, fields_after_call(svc, r))
      ELSE handled("Journal analyzed", FALSE, "return", {entry},
                   fields_after_call(svc, r))

\* the answers a form field can hold
FormAnswers == {None, "x", "-1"} \cup {IntStrings[n + 1] : n \in 0..MaxVal}

\* submitted forms: eight equal valid answers, then one answer of any kind
Forms ==
  {[i \in 1..9 |-> IF i <= 8 THEN IntStrings[n + 1] ELSE a] :
     n \in 0..3, a \in FormAnswers}

\* submitted journal texts: empty, or around the handler's minimum length
JournalTexts ==
  {Spaces(l) \o [i \in 1..c |-> "a"] \o Spaces(t) :
     l \in 0..MaxPad, c \in {0} \cup (19..MaxJournal), t \in 0..MaxPad}

\* what the libraries do during the call a journal submission makes: a
\* neutral or a strongly negative compound score, and on the model path a
\* mapped code, an unmapped code or a failing prediction
SubmissionRuntimes(svc) ==
  LET sentiment ==
        IF ~svc.vader_analyzer THEN {ZeroScores}
        ELSE {[positive |-> 0, negative |-> 0, neutral |-> 10,
               compound |-> c] : c \in {-MaxCompound, 0}}
      model ==
        IF ~svc.model_loaded
        THEN {[ml_fault |-> "none", prediction |-> 0]}
        ELSE {[ml_fault |-> "predict", prediction |-> 0]}
               \cup {[ml_fault |-> "none", prediction |-> p] :
                       p \in {0, MaxClass}}
  IN  {[scores |-> s, vader_raises |-> FALSE, ml_fault |-> m.ml_fault,
        prediction |-> m.prediction, confidence |-> 7] :
         s \in sentiment, m \in model}

\* the start-ups the handlers are explored under: every artifact file there
\* or none, and no load call raising or the last one
SubmissionEnvironments ==
  {e \in Environments :
     /\ e.bert_dir = e.scaler_file
     /\ e.scaler_file = e.classifier_file
     /\ e.load_raises \in {"none", "classifier"}}

InitRoutes ==
  /\ env \in SubmissionEnvironments
  /\ self = [constructed |-> FALSE, fields |-> InitialFields]
  /\ call = [op |-> "none"]
  /\ db = {}

Phq9Assessment ==
  /\ service_available(self)
  /\ call.op = "none"
  /\ \E form \in Forms, commit_ok \in BOOLEAN :
       LET h == phq9_assessment(self.fields, form, commit_ok)
       IN  /\ Cardinality(db \cup h.add) <= MaxRecords
           /\ db' = db \cup h.add
           /\ self' = [self EXCEPT !.fields = h.fields]
           /\ call' = [op |-> "phq9_assessment", form |-> form,
                       flash |-> h.flash, raised |-> h.raised,
                       analysis |-> h.analysis, stored |-> h.add]
  /\ UNCHANGED env

JournalAnalysis ==
  /\ service_available(self)
  /\ call.op = "none"
  /\ \E raw \in JournalTexts, commit_ok \in BOOLEAN :
       \E rt \in SubmissionRuntimes(self.fields) :
         LET h == journal_analysis(self.fields, raw, rt, commit_ok)
         IN  /\ Cardinality(db \cup h.add) <= MaxRecords
             /\ db' = db \cup h.add
             /\ self' = [self EXCEPT !.fields = h.fields]
             /\ call' = [op |-> "journal_analysis", text |-> raw,
                         flash |-> h.flash, raised |-> h.raised,
                         analysis |-> h.analysis, stored |-> h.add]
  /\ UNCHANGED env

NextRoutes == MLService \/ Phq9Assessment \/ JournalAnalysis \/ Respond

\* the service behind its two submitting handlers
SpecRoutes == InitRoutes /\ [][NextRoutes]_vars

(***************************************************************************)
(* Properties.                                                             *)
(***************************************************************************)
Phq9Call == call.op = "analyze_phq9"

JournalCall == call.op = "analyze_journal_text"

\* the response list of the call is a valid questionnaire response
ValidResponses ==
  /\ Phq9Call
  /\ Len(call.responses) = 9
  /\ \A i \in 1..9 : call.responses[i] \in 0..3

\* the nine answers of the call added up
Total ==
  call.responses[1] + call.responses[2] + call.responses[3]
    + call.responses[4] + call.responses[5] + call.responses[6]
    + call.responses[7] + call.responses[8] + call.responses[9]

\* every artifact of the bundle is present
AllArtifacts ==
  /\ self.constructed
  /\ self.fields.bert_model /\ self.fields.bert_tokenizer
  /\ self.fields.vader_analyzer
  /\ self.fields.scaler /\ self.fields.classifier

\* the journal call was made on text of sufficient length
LongJournalCall == JournalCall /\ Len(strip(call.text)) >= 10

\* the keys of a result of the rule-based estimator with no annotation
RuleBasedKeys ==
  {"text_length", "word_count", "vader_scores", "analysis_type",
   "predicted_severity", "confidence", "method", "recommendations"}

\* C1: for every list of exactly 9 answers in 0..3, analyze_phq9 returns
\* total_score equal to the sum of the answers and the severity of the band
\* the total falls in: 0..4 Minimal, 5..9 Mild, 10..14 Moderate, 15..19
\* Moderately Severe, 20 and above Severe.
C1_TotalAndBand ==
  ValidResponses =>
    /\ call.outcome = "return"
    /\ call.result.total_score = Total
    /\ \/ Total \in 0..4 /\ call.result.severity = "Minimal"
       \/ Total \in 5..9 /\ call.result.severity = "Mild"
       \/ Total \in 10..14 /\ call.result.severity = "Moderate"
       \/ Total \in 15..19 /\ call.result.severity = "Moderately Severe"
       \/ Total \in 20..27 /\ call.result.severity = "Severe"

C1_Witness ==
  /\ ValidResponses
  /\ Total = 15
  /\ call.result.severity = "Moderately Severe"

\* C2: for every response list whose length is not 9, or that holds an
\* answer outside 0..3, analyze_phq9 raises a validation error and returns
\* no severity result.
C2_InvalidRejected ==
  (/\ Phq9Call
   /\ \/ Len(call.responses) # 9
      \/ \E i \in 1..Len(call.responses) : call.responses[i] \notin 0..3)
    => call.outcome = "raise"

\* C3: when the encoder, the scaler or the classifier is absent after
\* loading, a call of analyze_journal_text on text of sufficient length
\* invokes neither the scaler transform nor the classifier, and its result
\* has the method tag of the rule-based estimator.
C3_AbsentArtifactRuleBased ==
  (/\ self.constructed
   /\ \/ ~self.fields.bert_model
      \/ ~self.fields.bert_tokenizer
      \/ ~self.fields.scaler
      \/ ~self.fields.classifier
   /\ LongJournalCall)
    => /\ call.outcome = "return"
       /\ "scaler.transform" \notin call.invoked
       /\ "classifier.predict" \notin call.invoked
       /\ "classifier.predict_proba" \notin call.invoked
       /\ "method" \in DOMAIN call.result
       /\ call.result.method = "rule_based"

C3_Witness ==
  /\ self.constructed
  /\ self.fields.bert_model /\ self.fields.scaler /\ self.fields.vader_analyzer
  /\ ~self.fields.classifier
  /\ LongJournalCall
  /\ "method" \in DOMAIN call.result
  /\ call.result.method = "rule_based"

\* C4: the rule-based estimator decides from the sentiment scores alone, in
\* fixed order: compound <= -0.5 or negative >= 0.4 gives Moderate; else
\* compound <= -0.2 or negative >= 0.2 gives Mild; else Minimal.  It always
\* returns and always attaches confidence 0.7.
C4_FallbackThresholds ==
  (JournalCall /\ "method" \in DOMAIN call.result) =>
    LET compound == call.result.vader_scores.compound
        negative == call.result.vader_scores.negative
        severity == call.result.predicted_severity
    IN  /\ call.outcome = "return"
        /\ call.result.confidence = 7
        /\ (compound <= -5 \/ negative >= 4) => severity = "Moderate"
        /\ (/\ ~(compound <= -5 \/ negative >= 4)
            /\ (compound <= -2 \/ negative >= 2)) => severity = "Mild"
        /\ (compound > -2 /\ negative < 2) => severity = "Minimal"

C4_Witness ==
  /\ JournalCall
  /\ "method" \in DOMAIN call.result
  /\ call.result.vader_scores.compound = -5
  /\ call.result.vader_scores.negative = 0
  /\ call.result.predicted_severity = "Moderate"

\* C5: analyze_journal_text on text shorter than 10 characters (leading and
\* trailing whitespace not counted) returns the too-short error result and
\* nothing else: no sentiment scorer, encoder, scaler or classifier call, and
\* no severity, confidence or recommendations in the result.
C5_TooShortNoExtraction ==
  (JournalCall /\ Len(strip(call.text)) < 10) =>
    /\ call.outcome = "return"
    /\ DOMAIN call.result = {"error", "analysis_type"}
    /\ call.result.error = "Text too short for analysis"
    /\ call.invoked = {}

C5_Witness ==
  /\ JournalCall
  /\ AllArtifacts
  /\ Len(strip(call.text)) = 9
  /\ Len(call.text) >= 10
  /\ "error" \in DOMAIN call.result

\* C6: with all artifacts loaded, when feature fusion, scaling or the
\* classifier raises inside analyze_journal_text, the call still returns:
\* the result carries ml_error, and its severity, confidence 0.7 and
\* recommendations are those of the rule-based estimator on the same scores.
C6_MlErrorFallsBack ==
  (/\ AllArtifacts
   /\ LongJournalCall
   /\ call.rt.ml_fault \in {"fusion", "scaler", "predict", "predict_proba"})
    => /\ call.outcome = "return"
       /\ "ml_error" \in DOMAIN call.result
       /\ "predicted_severity" \in DOMAIN call.result
       /\ LET fallback == _fallback_analysis(call.result.vader_scores)
          IN  /\ call.result.predicted_severity = fallback.predicted_severity
              /\ call.result.confidence = 7
              /\ call.result.recommendations = fallback.recommendations

C6_Witness ==
  /\ AllArtifacts
  /\ LongJournalCall
  /\ call.rt.ml_fault = "predict"
  /\ "ml_error" \in DOMAIN call.result
  /\ call.result.predicted_severity = "Moderate"

\* C7 as stated: with all artifacts loaded, when embedding extraction fails
\* at runtime, analyze_journal_text returns a rule-based result that carries
\* a diagnostic note about the failure (a key beyond those of a plain
\* rule-based result).
C7_EmbeddingFailureNoted ==
  (/\ AllArtifacts
   /\ LongJournalCall
   /\ call.rt.ml_fault = "embedding")
    => /\ call.outcome = "return"
       /\ "method" \in DOMAIN call.result
       /\ call.result.method = "rule_based"
       /\ DOMAIN call.result \ RuleBasedKeys # {}

\* C7 as amended: with all artifacts loaded, when embedding extraction fails
\* at runtime, analyze_journal_text returns the plain rule-based result
\* (method rule_based, confidence 0.7, severity from the thresholds); the
\* result carries no ml_error or other note: the failure is only logged.
C7_EmbeddingFailureSilent ==
  (/\ AllArtifacts
   /\ LongJournalCall
   /\ call.rt.ml_fault = "embedding")
    => /\ call.outcome = "return"
       /\ DOMAIN call.result = RuleBasedKeys
       /\ call.result.method = "rule_based"
       /\ call.result.confidence = 7
       /\ call.result.predicted_severity \in {"Minimal", "Mild", "Moderate"}

C7_Witness ==
  /\ AllArtifacts
  /\ LongJournalCall
  /\ call.rt.ml_fault = "embedding"
  /\ "bert_model" \in call.invoked
  /\ call.result.method = "rule_based"

\* the severity of the call's result came from the classifier
FromClassifier ==
  /\ self.fields.model_loaded
  /\ call.rt.ml_fault = "none"

\* C8 as stated: every non-error result of analyze_journal_text carries a
\* method tag, rule-based when the severity came from the rule-based
\* estimator and model-based when it came from the classifier.
C8_MethodTagAlways ==
  (JournalCall /\ "error" \notin DOMAIN call.result) =>
    /\ "method" \in DOMAIN call.result
    /\ call.result.method =
         IF FromClassifier THEN "model_based" ELSE "rule_based"

\* C8 as amended: a non-error result of analyze_journal_text carries the
\* method tag rule_based when the severity came from the rule-based
\* estimator, and no method key at all when it came from the classifier
\* (it carries ml_prediction instead); the presence of the method key alone
\* tells the two paths apart.
C8_MethodTagOnlyRuleBased ==
  (JournalCall /\ "error" \notin DOMAIN call.result) =>
    IF FromClassifier
    THEN /\ "method" \notin DOMAIN call.result
         /\ "ml_prediction" \in DOMAIN call.result
    ELSE /\ "method" \in DOMAIN call.result
         /\ call.result.method = "rule_based"
         /\ "ml_prediction" \notin DOMAIN call.result

C8_Witness ==
  /\ JournalCall
  /\ AllArtifacts
  /\ "ml_prediction" \in DOMAIN call.result
  /\ "method" \notin DOMAIN call.result
  /\ call.result.predicted_severity = "Severe"

\* the base list of a questionnaire severity band
Phq9Base ==
  CASE call.result.severity = "Minimal" -> Phq9Minimal
    [] call.result.severity = "Mild" -> Phq9Mild
    [] call.result.severity = "Moderate" -> Phq9Moderate
    [] call.result.severity \in {"Moderately Severe", "Severe"} -> Phq9Severe

\* C9: for every valid questionnaire response the recommendations start with
\* the urgent advisory if and only if total_score >= 15, and the rest of the
\* list is the base list of the severity band, in table order.
C9_UrgentIffFifteen ==
  ValidResponses =>
    LET recs == call.result.recommendations
    IN  /\ (recs[1] = UrgentAdvisory) <=> (Total >= 15)
        /\ Total >= 15 => Tail(recs) = Phq9Base
        /\ Total < 15 => recs = Phq9Base

C9_Witness ==
  /\ ValidResponses
  /\ Total = 15
  /\ call.result.recommendations[1] = UrgentAdvisory
  /\ Len(call.result.recommendations) = 6

\* the base list of the journal label of the call's result
JournalBase ==
  CASE call.result.predicted_severity = "Minimal" -> JournalMinimal
    [] call.result.predicted_severity = "Mild" -> JournalMild
    [] call.result.predicted_severity = "Moderate" -> JournalModerate
    [] OTHER -> JournalSevere

\* C10: the journal recommendations are the base list of the label, then the
\* challenge-negative-thoughts advisory exactly when negative > 0.3, then the
\* pleasant-activities advisory exactly when positive < 0.1; the two addenda
\* are independent and leave the base entries in place.
C10_JournalAddenda ==
  (JournalCall /\ "error" \notin DOMAIN call.result) =>
    LET recs == call.result.recommendations
        negative == call.result.vader_scores.negative
        positive == call.result.vader_scores.positive
        n == Len(JournalBase)
        challenge == IF negative > 3 THEN 1 ELSE 0
        pleasant == IF positive < 1 THEN 1 ELSE 0
    IN  /\ Len(recs) = n + challenge + pleasant
        /\ SubSeq(recs, 1, n) = JournalBase
        /\ challenge = 1 => recs[n + 1] = ChallengeAdvisory
        /\ pleasant = 1 => recs[n + challenge + 1] = PleasantAdvisory

C10_Witness ==
  /\ JournalCall
  /\ "error" \notin DOMAIN call.result
  /\ call.result.vader_scores.negative = 4
  /\ call.result.vader_scores.positive = 0
  /\ Len(call.result.recommendations) = 6
  /\ call.result.predicted_severity = "Severe"

\* C11: on the model path the predicted class code is mapped by the fixed
\* table 0 Minimal, 1 Mild, 2 Moderate, 3 Severe; any other code gives the
\* label Unknown in a normal result (no error, no ml_error, no fallback).
C11_ClassCodeTable ==
  (LongJournalCall /\ FromClassifier) =>
    /\ call.outcome = "return"
    /\ DOMAIN call.result \cap {"error", "ml_error", "method"} = {}
    /\ "ml_prediction" \in DOMAIN call.result
    /\ call.result.ml_prediction = call.rt.prediction
    /\ call.result.confidence = call.rt.confidence
    /\ \/ call.rt.prediction = 0 /\ call.result.predicted_severity = "Minimal"
       \/ call.rt.prediction = 1 /\ call.result.predicted_severity = "Mild"
       \/ call.rt.prediction = 2 /\ call.result.predicted_severity = "Moderate"
       \/ call.rt.prediction = 3 /\ call.result.predicted_severity = "Severe"
       \/ /\ call.rt.prediction \notin 0..3
          /\ call.result.predicted_severity = "Unknown"

C11_Witness ==
  /\ LongJournalCall
  /\ FromClassifier
  /\ call.rt.prediction = 4
  /\ call.result.predicted_severity = "Unknown"
  /\ call.outcome = "return"

\* C12: model loading has finished (each artifact loaded or definitively
\* absent) before any inference call is served: every call runs against the
\* bundle that _load_models left, never against the fields as __init__
\* first set them; and whatever artifacts are absent or fail to load, the
\* construction of the service can always complete.
C12_LoadBeforeServe ==
  /\ call.op # "none" =>
       /\ self.constructed
       /\ self.fields = _load_models(env, InitialFields)
  /\ ~self.constructed => ENABLED MLService

C12_Witness ==
  /\ self.constructed
  /\ env.load_raises = "scaler"
  /\ ~self.fields.model_loaded
  /\ JournalCall
  /\ call.outcome = "return"

LoadRaised == env.load_raises # "none" /\ attempted(env, env.load_raises)

\* C14: when _load_models has finished, by any path, model_loaded is true
\* only if the encoder, the sentiment analyzer, the scaler and the
\* classifier are all present, and it is false whenever one of them is
\* absent or a load call raised.
C14_LoadedMeansAllFour ==
  self.constructed =>
    /\ self.fields.model_loaded =>
         /\ self.fields.bert_model
         /\ self.fields.vader_analyzer
         /\ self.fields.scaler
         /\ self.fields.classifier
    /\ (\/ ~self.fields.bert_model
        \/ ~self.fields.vader_analyzer
        \/ ~self.fields.scaler
        \/ ~self.fields.classifier
        \/ LoadRaised) => ~self.fields.model_loaded

C14_Witness ==
  /\ self.constructed
  /\ env.load_raises = "classifier"
  /\ self.fields.bert_model
  /\ self.fields.vader_analyzer
  /\ self.fields.scaler
  /\ ~self.fields.model_loaded

\* C15: the rule-based path never yields Severe or Unknown: every result of
\* analyze_journal_text with method rule_based has a severity among
\* Minimal, Mild and Moderate and confidence 0.7, so a result that carries
\* the Severe recommendation list came from the classifier.
C15_RuleBasedNeverSevere ==
  (JournalCall /\ "error" \notin DOMAIN call.result) =>
    /\ "method" \in DOMAIN call.result =>
         /\ call.result.method = "rule_based"
         /\ call.result.predicted_severity \in {"Minimal", "Mild", "Moderate"}
         /\ call.result.confidence = 7
    /\ (/\ Len(call.result.recommendations) >= Len(JournalSevere)
        /\ SubSeq(call.result.recommendations, 1, Len(JournalSevere))
             = JournalSevere) =>
         /\ "ml_prediction" \in DOMAIN call.result
         /\ "method" \notin DOMAIN call.result

C15_Witness ==
  /\ LongJournalCall
  /\ "method" \in DOMAIN call.result
  /\ call.result.vader_scores.compound = -6
  /\ call.result.vader_scores.negative = 5
  /\ call.result.predicted_severity = "Moderate"

\* C16: when the classifier returns an unmapped class code, the result
\* labelled Unknown carries the recommendation list of the Severe band
\* followed by the sentiment addenda; a label other than Minimal, Mild and
\* Moderate never gets an empty recommendation list.
C16_UnknownGetsSevereList ==
  (JournalCall /\ "error" \notin DOMAIN call.result) =>
    LET recs == call.result.recommendations
        negative == call.result.vader_scores.negative
        positive == call.result.vader_scores.positive
    IN  /\ call.result.predicted_severity = "Unknown" =>
             recs = JournalSevere
                      \o (IF negative > 3 THEN <<ChallengeAdvisory>>
                          ELSE <<>>)
                      \o (IF positive < 1 THEN <<PleasantAdvisory>>
                          ELSE <<>>)
        /\ call.result.predicted_severity
             \notin {"Minimal", "Mild", "Moderate"} =>
               /\ Len(recs) >= 4
               /\ recs[1] = "Seek professional help immediately"

C16_Witness ==
  /\ LongJournalCall
  /\ call.rt.prediction = 4
  /\ call.result.predicted_severity = "Unknown"
  /\ call.result.recommendations[1] = "Seek professional help immediately"
  /\ call.result.vader_scores.negative = 4
  /\ Len(call.result.recommendations) = 5

\* the nine stored answers of an assessment row added up
StoredSum(row) ==
  row.q1_interest + row.q2_depression + row.q3_sleep + row.q4_energy
    + row.q5_appetite + row.q6_selfworth + row.q7_concentration
    + row.q8_psychomotor + row.q9_suicidal

\* the stored severity of an assessment row is the band of its stored total
StoredBand(row) ==
  \/ row.total_score <= 4 /\ row.severity_level = "Minimal"
  \/ row.total_score \in 5..9 /\ row.severity_level = "Mild"
  \/ row.total_score \in 10..14 /\ row.severity_level = "Moderate"
  \/ row.total_score \in 15..19 /\ row.severity_level = "Moderately Severe"
  \/ row.total_score >= 20 /\ row.severity_level = "Severe"

\* the step is a submission to one of the two handlers
Submitted == call.op = "none" /\ call'.op \in {"phq9_assessment",
                                               "journal_analysis"}

\* C17: after any sequence of PHQ-9 and journal submissions, a row is stored
\* only by a submission whose analysis succeeded: every stored assessment
\* has total_score equal to the sum of its nine stored answers and the
\* severity band of that total; a PHQ-9 submission with a missing answer or
\* a raised error stores nothing; a journal submission of fewer than 20
\* stripped characters or with an error result stores nothing.
C17_StoredOnlyOnSuccess ==
  /\ [](\A row \in db :
          row.kind = "PHQ9Assessment" =>
            row.total_score = StoredSum(row) /\ StoredBand(row))
  /\ [][db' # db =>
          /\ Submitted
          /\ call'.analysis = "return"
          /\ ~call'.raised
          /\ db \subseteq db'
          /\ Cardinality(db' \ db) = 1]_vars
  /\ [][(/\ Submitted
         /\ call'.op = "phq9_assessment"
         /\ \/ \E i \in 1..9 : call'.form[i] = None
            \/ call'.raised) => db' = db]_vars
  /\ [][(/\ Submitted
         /\ call'.op = "journal_analysis"
         /\ \/ Len(strip(call'.text)) < 20
            \/ call'.analysis = "error"
            \/ call'.raised) => db' = db]_vars

C17_Witness ==
  /\ \E row \in db :
       /\ row.kind = "PHQ9Assessment"
       /\ row.total_score = 20
       /\ row.severity_level = "Severe"
  /\ call.op = "journal_analysis"
  /\ Len(call.text) >= 20
  /\ Len(strip(call.text)) = 19
  /\ call.stored = {}

====
